---- MODULE Spec2Model ----
(***************************************************************************)
(* Model of Geometry.py: are_shapes_touching and group_touching_shapes     *)
(* (depth-first clustering of shapes by zero distance).                    *)
(*                                                                         *)
(* Positions are 1-based here (Python's enumerate is 0-based); position p  *)
(* of the model is index p-1 of the code.  The geometric kernel            *)
(* (BRepExtrema_DistShapeShape) is the oracle: a fixed function from an    *)
(* ordered pair of solids to a distance or to "not done".  Distances are   *)
(* counted in units of the smallest positive float, so 1 is the smallest   *)
(* strictly positive distance.                                             *)
(***************************************************************************)
EXTENDS Integers, Sequences, FiniteSets, TLC

MaxLen == 4

Solids == {"A", "B"}

Distances == {0, 1}

\* what the kernel object answers: IsDone() and, when done, Value()
Extrema == {[done |-> TRUE, value |-> d] : d \in Distances}
           \cup {[done |-> FALSE, value |-> 0]}

VARIABLES
    input,      \* the caller's sequence of solids (never changes)
    oracle,     \* the kernel: [Solids \X Solids -> Extrema]
    shapes,     \* argument of the current invocation
    visited,    \* set of positions                          (line 43)
    groups,     \* list of finished clusters, as solids       (line 44)
    group,      \* the cluster being built, as solids         (line 57)
    stack,      \* the recursion of dfs: frames [shape, pos, j]
    i,          \* index of the for loop of line 54
    pc,         \* "for" | "dfs" | "returned" | "raised"
    result,     \* what the caller receives: [kind, value]
    members,    \* history: positions of the solids in groups
    cur,        \* history: positions of the solids in group
    parent,     \* history: position from which each position was discovered
    qlog,       \* history: the distance queries issued, in order
    started,    \* history: number of dfs calls started per position
    phase,      \* "first" | "again" | "flat": which invocation this is
    first       \* outcome of the first invocation

vars == <<input, oracle, shapes, visited, groups, group, stack, i, pc, result,
          members, cur, parent, qlog, started, phase, first>>

Positions == 1..Len(shapes)

Inputs == UNION {[1..n -> Solids] : n \in 0..MaxLen}

Oracles == [Solids \X Solids -> Extrema]

----------------------------------------------------------------------------
(* are_shapes_touching, lines 23-35 *)

BRepExtrema_DistShapeShape(shape1, shape2) == oracle[<<shape1, shape2>>]

IsDone(extrema) == extrema.done

RaisesRuntimeError_swallowed(extrema) == FALSE

\* lines 32-33: if not extrema.IsDone(): raise RuntimeError
RaisesRuntimeError(extrema) == ~IsDone(extrema)

IsZero_tolerant(min_distance) == min_distance <= 1

\* line 35: min_distance == 0.0
IsZero(min_distance) == min_distance = 0

\* the outcome of one call: raised, or the returned boolean
are_shapes_touching(shape1, shape2) ==
    LET extrema == BRepExtrema_DistShapeShape(shape1, shape2)
    IN  IF RaisesRuntimeError(extrema)
        THEN [raised |-> TRUE, value |-> FALSE]
        ELSE [raised |-> FALSE, value |-> IsZero(extrema.value)]

----------------------------------------------------------------------------
(* group_touching_shapes, lines 37-61 *)

FreshVisited_kept(old) == old

\* line 43: visited = set(), whatever an earlier call left behind
FreshVisited(old) == {}

NoResult == [kind |-> "pending", value |-> <<>>]

\* entry of an invocation on s: lines 43-44, and the history variables
Enter(s, old) ==
    /\ shapes' = s
    /\ visited' = FreshVisited(old)
    /\ groups' = <<>>
    /\ group' = <<>>
    /\ stack' = <<>>
    /\ i' = 1
    /\ pc' = "for"
    /\ result' = NoResult
    /\ members' = <<>>
    /\ cur' = <<>>
    /\ parent' = [p \in 1..Len(s) |-> 0]
    /\ qlog' = <<>>
    /\ started' = [p \in 1..Len(s) |-> 0]

Init ==
    /\ input \in Inputs
    /\ oracle \in Oracles
    /\ shapes = input
    /\ visited = FreshVisited({})
    /\ groups = <<>>
    /\ group = <<>>
    /\ stack = <<>>
    /\ i = 1
    /\ pc = "for"
    /\ result = NoResult
    /\ members = <<>>
    /\ cur = <<>>
    /\ parent = [p \in 1..Len(input) |-> 0]
    /\ qlog = <<>>
    /\ started = [p \in 1..Len(input) |-> 0]
    /\ phase = "first"
    /\ first = NoResult

ForDone_early == i > 1 \/ i > Len(shapes)

\* the for loop of line 54 is exhausted
ForDone == i > Len(shapes)

SeedNeeded_always(k) == TRUE

\* line 55: if i not in visited
SeedNeeded(k) == k \notin visited

ShortCircuit_none(k) == FALSE

\* line 49, left operand of "and": a visited position is not queried
ShortCircuit(k) == k \in visited

DfsCondition_untested(unvisited, touching) == unvisited

\* line 49: i not in visited and are_shapes_touching(shape, other_shape)
DfsCondition(unvisited, touching) == unvisited /\ touching

GroupAppend_front(g, x) == <<x>> \o g

\* line 51 (and line 59): list.append
GroupAppend(g, x) == Append(g, x)

Recurse_never(st, frame) == st

\* line 52: dfs(other_shape, group)
Recurse(st, frame) == Append(st, frame)

ScanStart_after(pos) == pos + 1

\* line 48: enumerate(shapes) starts every scan at the first position
ScanStart(pos) == 1

Top == stack[Len(stack)]

Advance(st) == [st EXCEPT ![Len(st)].j = @ + 1]

Query(f, k, r) ==
    [a |-> f.pos, b |-> k, aVisited |-> f.pos \in visited,
     bVisited |-> k \in visited, raised |-> r.raised, value |-> r.value]

\* lines 54-55, position already visited: next iteration
for_skip ==
    /\ pc = "for"
    /\ ~ForDone
    /\ ~SeedNeeded(i)
    /\ i' = i + 1
    /\ UNCHANGED <<input, oracle, shapes, visited, groups, group, stack, pc,
                   result, members, cur, parent, qlog, started, phase, first>>

\* lines 54-58: seed a new cluster and call dfs on the seed
for_seed ==
    /\ pc = "for"
    /\ ~ForDone
    /\ SeedNeeded(i)
    /\ visited' = visited \cup {i}
    /\ group' = <<shapes[i]>>
    /\ cur' = <<i>>
    /\ stack' = <<[shape |-> shapes[i], pos |-> i, j |-> ScanStart(i)]>>
    /\ started' = [started EXCEPT ![i] = @ + 1]
    /\ pc' = "dfs"
    /\ UNCHANGED <<input, oracle, shapes, groups, i, result, members, parent,
                   qlog, phase, first>>

\* lines 48-49, the position is visited: no query, next iteration
dfs_skip ==
    /\ pc = "dfs"
    /\ stack # <<>>
    /\ Top.j <= Len(shapes)
    /\ ShortCircuit(Top.j)
    /\ stack' = Advance(stack)
    /\ UNCHANGED <<input, oracle, shapes, visited, groups, group, i, pc,
                   result, members, cur, parent, qlog, started, phase, first>>

\* lines 49, 32-33: the query fails; the error leaves dfs and the call
dfs_raise ==
    /\ pc = "dfs"
    /\ stack # <<>>
    /\ Top.j <= Len(shapes)
    /\ ~ShortCircuit(Top.j)
    /\ LET r == are_shapes_touching(Top.shape, shapes[Top.j])
       IN  /\ r.raised
           /\ qlog' = Append(qlog, Query(Top, Top.j, r))
    /\ stack' = <<>>
    /\ pc' = "raised"
    /\ result' = [kind |-> "raised", value |-> <<>>]
    /\ UNCHANGED <<input, oracle, shapes, visited, groups, group, i,
                   members, cur, parent, started, phase, first>>

\* lines 49-52: the condition holds; mark, append, recurse
dfs_touch ==
    /\ pc = "dfs"
    /\ stack # <<>>
    /\ Top.j <= Len(shapes)
    /\ ~ShortCircuit(Top.j)
    /\ LET r == are_shapes_touching(Top.shape, shapes[Top.j])
           k == Top.j
       IN  /\ ~r.raised
           /\ DfsCondition(k \notin visited, r.value)
           /\ qlog' = Append(qlog, Query(Top, k, r))
           /\ visited' = visited \cup {k}
           /\ group' = GroupAppend(group, shapes[k])
           /\ cur' = GroupAppend(cur, k)
           /\ parent' = [parent EXCEPT ![k] = Top.pos]
           /\ started' = [started EXCEPT ![k] = @ + 1]
           /\ stack' = Recurse(Advance(stack),
                               [shape |-> shapes[k], pos |-> k,
                                j |-> ScanStart(k)])
    /\ UNCHANGED <<input, oracle, shapes, groups, i, pc, result, members,
                   phase, first>>

\* line 49: the query answers and the condition is false; next iteration
dfs_apart ==
    /\ pc = "dfs"
    /\ stack # <<>>
    /\ Top.j <= Len(shapes)
    /\ ~ShortCircuit(Top.j)
    /\ LET r == are_shapes_touching(Top.shape, shapes[Top.j])
       IN  /\ ~r.raised
           /\ ~DfsCondition(Top.j \notin visited, r.value)
           /\ qlog' = Append(qlog, Query(Top, Top.j, r))
    /\ stack' = Advance(stack)
    /\ UNCHANGED <<input, oracle, shapes, visited, groups, group, i, pc,
                   result, members, cur, parent, started, phase, first>>

\* line 48 exhausted: this dfs call returns to its caller
dfs_return ==
    /\ pc = "dfs"
    /\ stack # <<>>
    /\ Top.j > Len(shapes)
    /\ stack' = SubSeq(stack, 1, Len(stack) - 1)
    /\ UNCHANGED <<input, oracle, shapes, visited, groups, group, i, pc,
                   result, members, cur, parent, qlog, started, phase, first>>

\* line 59: groups.append(group), then the next iteration of line 54
for_close ==
    /\ pc = "dfs"
    /\ stack = <<>>
    /\ groups' = GroupAppend(groups, group)
    /\ members' = GroupAppend(members, cur)
    /\ i' = i + 1
    /\ pc' = "for"
    /\ UNCHANGED <<input, oracle, shapes, visited, group, stack, result,
                   cur, parent, qlog, started, phase, first>>

\* line 61: return groups
return_groups ==
    /\ pc = "for"
    /\ ForDone
    /\ pc' = "returned"
    /\ result' = [kind |-> "returned", value |-> groups]
    /\ UNCHANGED <<input, oracle, shapes, visited, groups, group, stack, i,
                   members, cur, parent, qlog, started, phase, first>>

RECURSIVE Flatten(_)
Flatten(gs) == IF gs = <<>> THEN <<>> ELSE Head(gs) \o Flatten(Tail(gs))

Outcome == [kind |-> result.kind, value |-> result.value,
            members |-> IF result.kind = "returned" THEN members ELSE <<>>]

\* a second call of group_touching_shapes on the same input
invoke_again ==
    /\ phase = "first"
    /\ pc \in {"returned", "raised"}
    /\ phase' = "again"
    /\ first' = Outcome
    /\ Enter(input, visited)
    /\ UNCHANGED <<input, oracle>>

\* a call of group_touching_shapes on the concatenation of a first result
invoke_flat ==
    /\ phase = "first"
    /\ pc = "returned"
    /\ phase' = "flat"
    /\ first' = Outcome
    /\ Enter(Flatten(result.value), visited)
    /\ UNCHANGED <<input, oracle>>

Next ==
    \/ for_skip
    \/ for_seed
    \/ dfs_skip
    \/ dfs_raise
    \/ dfs_touch
    \/ dfs_apart
    \/ dfs_return
    \/ for_close
    \/ return_groups
    \/ invoke_again
    \/ invoke_flat

Spec == Init /\ [][Next]_vars

\* the interpreter runs the call to its end
FairSpec == Spec /\ WF_vars(Next)

----------------------------------------------------------------------------
(* Vocabulary of the properties *)

\* the oracle returns a distance for every ordered pair
NonFailing == \A pr \in Solids \X Solids : oracle[pr].done

Symmetric == \A a, b \in Solids : oracle[<<a, b>>] = oracle[<<b, a>>]

\* the oracle reports distance(shapes[p], shapes[q]) = 0
Dist0(p, q) ==
    /\ oracle[<<shapes[p], shapes[q]>>].done
    /\ oracle[<<shapes[p], shapes[q]>>].value = 0

Touch(p, q) == Dist0(p, q) \/ Dist0(q, p)

Range(f) == {f[x] : x \in DOMAIN f}

\* the clusters of the result in which position p occurs
ClustersOf(p) == {k \in DOMAIN members : p \in Range(members[k])}

Occurrences(p) ==
    {km \in {<<k, m>> \in (DOMAIN members) \X (1..Len(shapes)) :
                m \in DOMAIN members[k]} : members[km[1]][km[2]] = p}

RECURSIVE Reach(_, _)
Reach(S, R) ==
    LET N == R \cup {q \in S : \E p \in R : Touch(p, q)}
    IN  IF N = R THEN R ELSE Reach(S, N)

Connected(S) == \A a \in S : Reach(S, {a}) = S

Sizes(gs) ==
    [n \in 0..Len(input) |-> Cardinality({k \in DOMAIN gs : Len(gs[k]) = n})]

IndexIn(seq, x) == {m \in DOMAIN seq : seq[m] = x}

----------------------------------------------------------------------------
(* C1: the returned clusters are a set-partition of the input positions:   *)
(* every position occurs in exactly one cluster exactly once, no cluster   *)
(* is empty, the member count equals the input length, and each member is  *)
(* the solid held at its position (equal solids stay separate members).    *)
C1_Partition ==
    pc = "returned" =>
        /\ result.value = groups
        /\ Len(members) = Len(groups)
        /\ \A k \in DOMAIN groups :
              /\ Len(groups[k]) >= 1
              /\ Len(groups[k]) = Len(members[k])
              /\ \A m \in DOMAIN groups[k] :
                    /\ members[k][m] \in Positions
                    /\ groups[k][m] = shapes[members[k][m]]
        /\ \A p \in Positions : Cardinality(Occurrences(p)) = 1
        /\ Len(Flatten(result.value)) = Len(shapes)

C1_Witness ==
    /\ pc = "returned"
    /\ phase = "first"
    /\ Len(groups) >= 2
    /\ \E p, q \in Positions :
          p # q /\ shapes[p] = shapes[q] /\ ClustersOf(p) = ClustersOf(q)

(* C2 as stated: for every oracle that returns a distance for every        *)
(* ordered pair, no two positions in different clusters have distance 0.   *)
C2_Original ==
    (pc = "returned" /\ NonFailing) =>
        \A p, q \in Positions :
            ClustersOf(p) \cap ClustersOf(q) = {} => ~Dist0(p, q)

(* C2 amended: for a symmetric oracle no two positions in different        *)
(* clusters have distance 0; for any oracle, distance(shapes[p],shapes[q]) *)
(* is not 0 when p is in an earlier cluster than q.                        *)
C2_Completeness ==
    (pc = "returned" /\ NonFailing) =>
        /\ \A k1, k2 \in DOMAIN members :
              k1 < k2 => \A p \in Range(members[k1]), q \in Range(members[k2]) :
                            ~Dist0(p, q)
        /\ Symmetric =>
              \A p, q \in Positions :
                  ClustersOf(p) \cap ClustersOf(q) = {} => ~Dist0(p, q)

C2_Witness ==
    /\ pc = "returned"
    /\ phase = "first"
    /\ NonFailing
    /\ Symmetric
    /\ Len(groups) >= 2
    /\ \E k \in DOMAIN groups : Len(groups[k]) >= 2

(* C3: the members of a cluster are connected by a chain of touching       *)
(* members of that cluster, and every member but the seed was appended     *)
(* because a member already in the cluster is at distance 0 from it.       *)
C3_Cluster(c) ==
    /\ Connected(Range(c))
    /\ \A m \in DOMAIN c :
          m > 1 => /\ \E m0 \in 1..(m - 1) : c[m0] = parent[c[m]]
                   /\ Dist0(parent[c[m]], c[m])

C3_Soundness ==
    /\ \A k \in DOMAIN members : C3_Cluster(members[k])
    /\ pc = "dfs" => C3_Cluster(cur)

C3_Witness ==
    /\ pc = "returned"
    /\ phase = "first"
    /\ \E k \in DOMAIN members :
          /\ Len(members[k]) >= 3
          /\ \E p, q \in Range(members[k]) : p # q /\ ~Touch(p, q)

(* C4: a distance query on which the oracle fails is the last query of     *)
(* the call, the call ends raised, and the caller receives no clusters.    *)
C4_FailFast ==
    /\ \A n \in DOMAIN qlog :
          ~oracle[<<shapes[qlog[n].a], shapes[qlog[n].b]>>].done =>
              /\ n = Len(qlog)
              /\ pc = "raised"
              /\ result = [kind |-> "raised", value |-> <<>>]
    /\ pc = "raised" => result = [kind |-> "raised", value |-> <<>>]

C4_Witness ==
    /\ pc = "raised"
    /\ phase = "first"
    /\ Len(groups) >= 1
    /\ result.value = <<>>

(* C5: clusters are listed by increasing seed position, the first member   *)
(* of a cluster is its seed and its lowest position, and every later       *)
(* member comes after the member from which it was discovered.             *)
C5_Ordering ==
    pc = "returned" =>
        /\ \A k1, k2 \in DOMAIN members :
              k1 < k2 => members[k1][1] < members[k2][1]
        /\ \A k \in DOMAIN members :
              /\ parent[members[k][1]] = 0
              /\ result.value[k][1] = shapes[members[k][1]]
              /\ \A m \in DOMAIN members[k] :
                    /\ members[k][1] <= members[k][m]
                    /\ m > 1 => \E m0 \in 1..(m - 1) :
                                    members[k][m0] = parent[members[k][m]]

C5_Witness ==
    /\ pc = "returned"
    /\ phase = "first"
    /\ \E k \in DOMAIN members :
          /\ Len(members[k]) >= 3
          /\ members[k][2] > members[k][3]

(* C6: for a symmetric non-failing oracle, clustering the concatenation of *)
(* the clusters of a first run returns, with the same multiset of cluster  *)
(* sizes as the first run.                                                 *)
C6_Idempotent ==
    (phase = "flat" /\ Symmetric /\ NonFailing) =>
        /\ pc # "raised"
        /\ pc = "returned" => Sizes(result.value) = Sizes(first.value)

C6_Witness ==
    /\ phase = "flat"
    /\ pc = "returned"
    /\ Symmetric
    /\ NonFailing
    /\ shapes # input
    /\ Len(groups) >= 2

(* C7: a second invocation on the same input ends as the first did: the    *)
(* same clusters in the same order with the same members in the same       *)
(* order, or the same failure.                                             *)
C7_Deterministic ==
    (phase = "again" /\ pc \in {"returned", "raised"}) => Outcome = first

C7_Witness ==
    /\ phase = "again"
    /\ pc = "returned"
    /\ Len(groups) >= 2
    /\ \E k \in DOMAIN groups : Len(groups[k]) >= 2

(* C8: a query answers true exactly when the oracle's distance is 0, a     *)
(* strictly positive distance answers false, and a position is merged      *)
(* only on a query that answered true at distance exactly 0.               *)
C8_ExactZero ==
    /\ \A n \in DOMAIN qlog :
          ~qlog[n].raised =>
              (qlog[n].value <=> Dist0(qlog[n].a, qlog[n].b))
    /\ \A q \in Positions :
          parent[q] # 0 =>
              /\ Dist0(parent[q], q)
              /\ \E n \in DOMAIN qlog :
                    /\ qlog[n].a = parent[q]
                    /\ qlog[n].b = q
                    /\ qlog[n].value

C8_Witness ==
    /\ pc = "returned"
    /\ phase = "first"
    /\ \E n \in DOMAIN qlog :
          /\ oracle[<<shapes[qlog[n].a], shapes[qlog[n].b]>>].value = 1
          /\ ~qlog[n].value
    /\ \E q \in Positions : parent[q] # 0

(* C9: every query compares the solid of a visited position with the      *)
(* solid of a position not yet visited, never a position with itself, and  *)
(* an input of length 0 or 1 issues no query and returns [] or [[A]].      *)
C9_Queries ==
    /\ \A n \in DOMAIN qlog :
          /\ qlog[n].aVisited
          /\ ~qlog[n].bVisited
          /\ qlog[n].a # qlog[n].b
    /\ Len(shapes) <= 1 =>
          /\ qlog = <<>>
          /\ pc # "raised"
          /\ pc = "returned" =>
                result.value = IF shapes = <<>> THEN <<>> ELSE <<shapes>>

C9_Witness ==
    /\ pc = "returned"
    /\ phase = "first"
    /\ Len(shapes) = 1
    /\ ~oracle[<<shapes[1], shapes[1]>>].done

(* C10: the call terminates when the oracle always returns: visited only   *)
(* grows during a call, dfs is started at most once per position, and the  *)
(* call returns only with every position visited and expanded once.        *)
C10_Terminates ==
    /\ [][phase' = phase => visited \subseteq visited']_vars
    /\ [](\A p \in Positions : started[p] <= 1)
    /\ [](pc = "returned" =>
            /\ visited = Positions
            /\ \A p \in Positions : started[p] = 1)
    /\ (NonFailing /\ pc \in {"for", "dfs"}) ~> (pc = "returned")

C10_Witness ==
    /\ pc = "returned"
    /\ phase = "first"
    /\ NonFailing
    /\ Len(shapes) >= 3
    /\ Len(groups) = 2

====
